---- MODULE Spec2Model ----
(***************************************************************************)
(* TaxBot India: the tax computation engine (tax_calculator.py) and the    *)
(* "Calculate Tax" and "Predict Best Regime" handlers of the Streamlit     *)
(* page (main.py).                                                         *)
(*                                                                         *)
(* Money.  Inputs are whole rupees (the number_input widgets use           *)
(* format="%d").  Computed amounts are Python floats; every amount the     *)
(* calculators produce from a whole-rupee income is a multiple of 1/500    *)
(* rupee (rates 5/10/15/20/30 per cent give multiples of 1/20, the 4 per   *)
(* cent cess of that gives multiples of 1/500), so computed amounts are    *)
(* carried as integers counting 1/Scale rupee.  Binary rounding of the     *)
(* float operations (below 1e-9 rupee on this range) is not modelled.      *)
(*                                                                         *)
(* Predictor (tax_predictor.py).  The numpy global generator is carried as *)
(* the seed it was last given and the number of draws made since; a data   *)
(* frame and a fitted classifier are named by the generator state they     *)
(* were produced from.  The tree fitted on the seed-42 data is written out *)
(* (FittedTree); its second split is one of five equally good candidates,  *)
(* and which one the splitter takes is left open in tie_break.             *)
(***************************************************************************)
EXTENDS Integers, Sequences, FiniteSets, TLC

VARIABLES
    \* tab 1 widgets (main.py 57-70)
    income, investments, health_insurance, home_loan, edu_loan, hra,
    \* locals of the "Calculate Tax" branch, alive only in the run the click triggers
    calculated, old_regime_taxable, old_regime_tax, new_regime_tax, better_regime, tips,
    \* direct calls of the calculator functions: two argument slots A and B
    inA, inB, fnA, fnB, bdA, bdB, cmpAB, cmpBA,
    \* history: the results of the calculation made before the last change of a widget
    last_report,
    \* numpy's global generator, and the module-level predictor of the page (main.py 28)
    np_random, ml_predictor,
    \* which of the equally good second splits the tree builder takes
    tie_break,
    \* tab 2 widgets (main.py 89-99) and the local of the "Predict Best Regime" branch
    income_ml, investments_ml, health_insurance_ml, hra_ml, home_loan_ml, edu_loan_ml,
    age_ml, prediction,
    \* predictors built one after another, and predict_regime calls in flight on them
    instances, calls

appVars == <<income, investments, health_insurance, home_loan, edu_loan, hra,
             calculated, old_regime_taxable, old_regime_tax, new_regime_tax,
             better_regime, tips>>
fnVars == <<inA, inB, fnA, fnB, bdA, bdB, cmpAB, cmpBA>>
mlVars == <<np_random, ml_predictor, tie_break>>
tab2Vars == <<income_ml, investments_ml, health_insurance_ml, hra_ml, home_loan_ml,
              edu_loan_ml, age_ml, prediction>>
instVars == <<instances, calls>>
vars == <<appVars, fnVars, last_report, mlVars, tab2Vars, instVars>>

----------------------------------------------------------------------------
(* Bounds *)

\* incomes B-Delta .. B+Delta are tried around every bracket boundary B
Delta == 1
\* incomes above the last bracket: 1,500,000 + k * 500,000 for k in 1..MaxTop
MaxTop == 2
\* negative incomes for the direct calls: -k * 400,000 for k in 1..MaxNeg
MaxNeg == 2
\* widget values tried, as multiples of a grid that the widget's step divides
MaxInvestments == 2
MaxHealth == 1
MaxHomeLoan == 2
MaxEduLoan == 1
MaxHra == 1
\* tab 2 values tried around every threshold t of the fitted tree: t-Near+1 .. t+Near
Near == 1
\* predictors constructed, and concurrent callers of predict_regime
MaxInstances == 2
MaxCallers == 2

----------------------------------------------------------------------------
(* Amounts *)

\* computed amounts count 1/Scale rupee
Scale == 500

Rupees(n) == n * Scale

\* amount * rate for a whole-rupee amount and a rate given in per cent
Pct(amount, percent) == amount * ((percent * Scale) \div 100)

Max(a, b) == IF a >= b THEN a ELSE b

----------------------------------------------------------------------------
(* tax_calculator.py *)

Breakdown(tax, cess, total_tax) ==
    [base_tax |-> tax, cess |-> cess, total_tax |-> total_tax]

\* mutant: the cess taken at 3 per cent
Cess_ThreePercent(tax) == (tax * 3) \div 100

\* tax * 0.04
Cess(tax) == (tax * 4) \div 100

\* mutant: the 20 per cent slab taxed at 10 per cent
OldRegimeSlab_WrongRate(income_after_deductions) ==
    IF income_after_deductions <= 250000 THEN 0
    ELSE IF income_after_deductions <= 500000
        THEN Pct(income_after_deductions - 250000, 5)
    ELSE IF income_after_deductions <= 1000000
        THEN Rupees(12500) + Pct(income_after_deductions - 500000, 10)
    ELSE Rupees(112500) + Pct(income_after_deductions - 1000000, 30)

\* mutant: the top slab starts from 12,500 instead of 112,500
OldRegimeSlab_DropAtTop(income_after_deductions) ==
    IF income_after_deductions <= 250000 THEN 0
    ELSE IF income_after_deductions <= 500000
        THEN Pct(income_after_deductions - 250000, 5)
    ELSE IF income_after_deductions <= 1000000
        THEN Rupees(12500) + Pct(income_after_deductions - 500000, 20)
    ELSE Rupees(12500) + Pct(income_after_deductions - 1000000, 30)

\* mutant: the nil slab is missing, incomes up to 500,000 all take the 5 per cent formula
OldRegimeSlab_NoNilSlab(income_after_deductions) ==
    IF income_after_deductions <= 500000
        THEN Pct(income_after_deductions - 250000, 5)
    ELSE IF income_after_deductions <= 1000000
        THEN Rupees(12500) + Pct(income_after_deductions - 500000, 20)
    ELSE Rupees(112500) + Pct(income_after_deductions - 1000000, 30)

OldRegimeSlab(income_after_deductions) ==
    IF income_after_deductions <= 250000 THEN 0
    ELSE IF income_after_deductions <= 500000
        THEN Pct(income_after_deductions - 250000, 5)
    ELSE IF income_after_deductions <= 1000000
        THEN Rupees(12500) + Pct(income_after_deductions - 500000, 20)
    ELSE Rupees(112500) + Pct(income_after_deductions - 1000000, 30)

calculate_old_regime_tax(income_after_deductions) ==
    LET tax == OldRegimeSlab(income_after_deductions)
        cess == Cess(tax)
        total_tax == tax + cess
    IN  Breakdown(tax, cess, total_tax)

\* mutant: the 900,000 - 1,200,000 slab is skipped
NewRegimeSlab_MissingSlab(inc) ==
    IF inc <= 300000 THEN 0
    ELSE IF inc <= 600000 THEN Pct(inc - 300000, 5)
    ELSE IF inc <= 900000 THEN Rupees(15000) + Pct(inc - 600000, 10)
    ELSE IF inc <= 1500000 THEN Rupees(90000) + Pct(inc - 1200000, 20)
    ELSE Rupees(150000) + Pct(inc - 1500000, 30)

\* mutant: the 1,200,000 - 1,500,000 slab starts from 80,000 instead of 90,000
NewRegimeSlab_Jump(inc) ==
    IF inc <= 300000 THEN 0
    ELSE IF inc <= 600000 THEN Pct(inc - 300000, 5)
    ELSE IF inc <= 900000 THEN Rupees(15000) + Pct(inc - 600000, 10)
    ELSE IF inc <= 1200000 THEN Rupees(45000) + Pct(inc - 900000, 15)
    ELSE IF inc <= 1500000 THEN Rupees(80000) + Pct(inc - 1200000, 20)
    ELSE Rupees(150000) + Pct(inc - 1500000, 30)

NewRegimeSlab(inc) ==
    IF inc <= 300000 THEN 0
    ELSE IF inc <= 600000 THEN Pct(inc - 300000, 5)
    ELSE IF inc <= 900000 THEN Rupees(15000) + Pct(inc - 600000, 10)
    ELSE IF inc <= 1200000 THEN Rupees(45000) + Pct(inc - 900000, 15)
    ELSE IF inc <= 1500000 THEN Rupees(90000) + Pct(inc - 1200000, 20)
    ELSE Rupees(150000) + Pct(inc - 1500000, 30)

calculate_new_regime_tax(inc) ==
    LET tax == NewRegimeSlab(inc)
        cess == Cess(tax)
        total_tax == tax + cess
    IN  Breakdown(tax, cess, total_tax)

\* a tip is the text's section tag, followed by the number formatted into it
Tip80C(remaining_80c) == <<"80C", remaining_80c>>
Tip80D == <<"80D">>
Tip24b(hl) == <<"24b", hl>>
Tip80E == <<"80E">>
TipNPS == <<"80CCD(1B)">>
TipIncomeSplitting == <<"income splitting">>

\* mutant: the NPS tip sits in the else branch of the education-loan test
get_tax_saving_tips_NPSInElse(inc, inv, hi, hl, el) ==
    LET t0 == <<>>
        t1 == IF inv < 150000 THEN Append(t0, Tip80C(150000 - inv)) ELSE t0
        t2 == IF hi < 25000 THEN Append(t1, Tip80D) ELSE t1
        t3 == IF hl > 0 /\ hl < 200000 THEN Append(t2, Tip24b(hl)) ELSE t2
        t4 == IF el = 0 THEN Append(t3, Tip80E) ELSE Append(t3, TipNPS)
        t6 == IF inc > 1000000 THEN Append(t4, TipIncomeSplitting) ELSE t4
    IN  t6

\* mutant: the home-loan tip lacks its "home_loan > 0" test
get_tax_saving_tips_NoPositiveTest(inc, inv, hi, hl, el) ==
    LET t0 == <<>>
        t1 == IF inv < 150000 THEN Append(t0, Tip80C(150000 - inv)) ELSE t0
        t2 == IF hi < 25000 THEN Append(t1, Tip80D) ELSE t1
        t3 == IF hl < 200000 THEN Append(t2, Tip24b(hl)) ELSE t2
        t4 == IF el = 0 THEN Append(t3, Tip80E) ELSE t3
        t5 == Append(t4, TipNPS)
        t6 == IF inc > 1000000 THEN Append(t5, TipIncomeSplitting) ELSE t5
    IN  t6

get_tax_saving_tips(inc, inv, hi, hl, el) ==
    LET t0 == <<>>
        t1 == IF inv < 150000 THEN Append(t0, Tip80C(150000 - inv)) ELSE t0
        t2 == IF hi < 25000 THEN Append(t1, Tip80D) ELSE t1
        t3 == IF hl > 0 /\ hl < 200000 THEN Append(t2, Tip24b(hl)) ELSE t2
        t4 == IF el = 0 THEN Append(t3, Tip80E) ELSE t3
        t5 == Append(t4, TipNPS)
        t6 == IF inc > 1000000 THEN Append(t5, TipIncomeSplitting) ELSE t5
    IN  t6

\* mutant: "<=" for "<", a tie goes to the old regime
get_better_regime_TieToOld(old, new) ==
    IF old.total_tax <= new.total_tax
    THEN [regime |-> "Old Regime", savings |-> new.total_tax - old.total_tax]
    ELSE [regime |-> "New Regime", savings |-> old.total_tax - new.total_tax]

\* mutant: the savings are old - new in both branches
get_better_regime_SignedSavings(old, new) ==
    IF old.total_tax < new.total_tax
    THEN [regime |-> "Old Regime", savings |-> old.total_tax - new.total_tax]
    ELSE [regime |-> "New Regime", savings |-> old.total_tax - new.total_tax]

get_better_regime(old, new) ==
    IF old.total_tax < new.total_tax
    THEN [regime |-> "Old Regime", savings |-> new.total_tax - old.total_tax]
    ELSE [regime |-> "New Regime", savings |-> old.total_tax - new.total_tax]

----------------------------------------------------------------------------
(* tax_predictor.py *)

(***************************************************************************)
(* numpy's global generator is a deterministic stream: its state is the    *)
(* seed it was last given and the number of draws made since.  A process   *)
(* starts with a state taken from the operating system (seed -1 here).     *)
(*                                                                         *)
(* A training set is a function of the generator state it was drawn from,  *)
(* and a fitted tree is a function of the training set and of the          *)
(* generator state at the fit (the splitter takes its feature order from   *)
(* it): both are carried as those arguments.  The one training set the     *)
(* program draws, from seed 42, was rebuilt by replaying MT19937 and the   *)
(* draws of lines 31-44: 99 rows are labelled 1 (Old) and one row, number  *)
(* 66, is labelled 0 (New).  The Gini tree on it has the root split        *)
(* Health_Insurance <= 47088.5 (left: 94 rows, all Old) and, on the six    *)
(* rows to the right, five equally good splits that separate row 66 from   *)
(* the other five; which one the builder takes depends on the feature      *)
(* order its splitter draws and is left open (tie_break).                  *)
(***************************************************************************)
Seed == 42
NSamples == 100

ProcessStart == [seed |-> 0 - 1, pos |-> 0]

\* mutant: the generator is not reseeded
np_random_seed_Missing(rng, s) == rng

\* np.random.seed(s)
np_random_seed(rng, s) == [seed |-> s, pos |-> 0]

\* n calls of np.random.randint / np.random.uniform
Draw(rng, n) == [rng EXCEPT !.pos = @ + n]

\* income, ded_80c, ded_80d, hra, home_loan, edu_loan, age
DrawsPerDataset == 7

\* the DataFrame drawn with the generator in state rng
_generate_training_data(rng) ==
    LET seeded == np_random_seed(rng, Seed)
    IN  [df |-> [seed |-> seeded.seed, start |-> seeded.pos, rows |-> NSamples],
         rng |-> Draw(seeded, DrawsPerDataset)]

\* DecisionTreeClassifier(max_depth=5).fit(X, y) with the generator in state rng;
\* the splitter draws its own seed from the generator
_train_model(training_data, rng) ==
    [model |-> [fit_on |-> training_data, random_state |-> rng],
     rng |-> Draw(rng, 1)]

\* TaxRegimePredictor(): the instance, and the generator state it leaves
TaxRegimePredictor(rng) ==
    LET gen == _generate_training_data(rng)
        fit == _train_model(gen.df, gen.rng)
    IN  [self |-> [training_data |-> gen.df, model |-> fit.model], rng |-> fit.rng]

NotBuilt ==
    [training_data |-> [seed |-> 0, start |-> 0, rows |-> 0],
     model |-> [fit_on |-> [seed |-> 0, start |-> 0, rows |-> 0],
                random_state |-> [seed |-> 0, pos |-> 0]]]

\* the training set and the fit of the program: seed 42, drawn from the start
Seed42Data == [seed |-> Seed, start |-> 0, rows |-> NSamples]
Seed42Model ==
    [fit_on |-> Seed42Data, random_state |-> [seed |-> Seed, pos |-> DrawsPerDataset]]

\* classes_ of the fitted tree: 0 = New Regime, 1 = Old Regime, both occur in the labels
Classes == <<0, 1>>

\* a leaf holds the number of training rows of each class, in the order of Classes
Leaf(n0, n1) == [leaf |-> TRUE, value |-> <<n0, n1>>]

\* an inner node sends x[feature] <= threshold to the left; the thresholds are
\* midpoints k + 0.5 or whole numbers and the inputs whole, so <= floor(threshold)
Node(feature, threshold, left, right) ==
    [leaf |-> FALSE, feature |-> feature, threshold |-> threshold,
     left |-> left, right |-> right]

\* the five splits of the six rows with Health_Insurance > 47088.5
SecondSplits ==
    << Node("Income", 2111658, Leaf(0, 5), Leaf(1, 0)),
       Node("Health_Insurance", 47267, Leaf(1, 0), Leaf(0, 5)),
       Node("HRA", 12602, Leaf(1, 0), Leaf(0, 5)),
       Node("Home_Loan", 21653, Leaf(1, 0), Leaf(0, 5)),
       Node("Total_Deductions", 318143, Leaf(1, 0), Leaf(0, 5)) >>

\* the tree of Seed42Model
FittedTree(tie) ==
    Node("Health_Insurance", 47088, Leaf(0, 94), SecondSplits[tie])

\* the leaf an input row falls into
RECURSIVE Apply(_, _)
Apply(node, x) ==
    IF node.leaf THEN node.value
    ELSE IF x[node.feature] <= node.threshold
         THEN Apply(node.left, x)
         ELSE Apply(node.right, x)

\* model.predict: the class with the most rows in the leaf, the first one on a tie
ModelPredict(tree, x) ==
    LET value == Apply(tree, x)
    IN  IF value[1] >= value[2] THEN Classes[1] ELSE Classes[2]

\* model.predict_proba: the leaf's class fractions, as <<rows of the class, rows>>
ModelPredictProba(tree, x) ==
    LET value == Apply(tree, x)
    IN  [k \in 1..Len(value) |-> [num |-> value[k], den |-> value[1] + value[2]]]

InputData(inc, investments_80c, hi, h, hl, el, age, total_deductions) ==
    ("Income" :> inc) @@ ("80C_Investments" :> investments_80c)
    @@ ("Health_Insurance" :> hi) @@ ("HRA" :> h) @@ ("Home_Loan" :> hl)
    @@ ("Edu_Loan" :> el) @@ ("Age" :> age) @@ ("Total_Deductions" :> total_deductions)

\* the four explanation texts
ExplainOldHigh == "Your high deduction amount makes the Old Regime more beneficial."
ExplainOld == "Based on your profile, the Old Regime provides better tax benefits."
ExplainNewLow ==
    "With low deductions, the New Regime's reduced tax rates are more beneficial."
ExplainNew ==
    "Based on your overall profile, the New Regime appears to be more advantageous."

\* mutant: ">=" for ">" in the Old Regime branch
Explanation_Inclusive(pred, total_deductions) ==
    IF pred = 1
    THEN IF total_deductions >= 150000 THEN ExplainOldHigh ELSE ExplainOld
    ELSE IF total_deductions < 50000 THEN ExplainNewLow ELSE ExplainNew

Explanation(pred, total_deductions) ==
    IF pred = 1
    THEN IF total_deductions > 150000 THEN ExplainOldHigh ELSE ExplainOld
    ELSE IF total_deductions < 50000 THEN ExplainNewLow ELSE ExplainNew

\* mutant: the probability of the first class, whatever was predicted
Confidence_FirstClass(probability, pred) ==
    [num |-> probability[1].num * 100, den |-> probability[1].den]

\* probability[prediction] * 100, kept as a fraction
Confidence(probability, pred) ==
    [num |-> probability[pred + 1].num * 100, den |-> probability[pred + 1].den]

predict_regime(tree, inc, investments_80c, hi, h, hl, el, age) ==
    LET total_deductions == investments_80c + hi + h + hl + el
        input_data == InputData(inc, investments_80c, hi, h, hl, el, age, total_deductions)
        pred == ModelPredict(tree, input_data)
        probability == ModelPredictProba(tree, input_data)
    IN  [regime |-> IF pred = 1 THEN "Old Regime" ELSE "New Regime",
         confidence |-> Confidence(probability, pred),
         explanation |-> Explanation(pred, total_deductions)]

----------------------------------------------------------------------------
(* Values *)

NoBreakdown == Breakdown(-1, -1, -1)
NoVerdict == [regime |-> "", savings |-> -1]

OldBoundaries == {250000, 500000, 1000000}
NewBoundaries == {300000, 600000, 900000, 1200000, 1500000}

\* incomes handed to the calculator functions directly; 0 - Delta.. are negative
Incomes ==
    {b + d : b \in {0} \cup OldBoundaries \cup NewBoundaries, d \in (0 - Delta)..Delta}
    \cup {825000}
    \cup {1500000 + k * 500000 : k \in 1..MaxTop}
    \cup {0 - k * 400000 : k \in 1..MaxNeg}

\* the income widget has min_value=0
WidgetIncomes == {x \in Incomes : x >= 0}
WidgetInvestments == {k * 75000 : k \in 0..MaxInvestments}
WidgetHealth == {k * 25000 : k \in 0..MaxHealth}
WidgetHomeLoan == {k * 100000 : k \in 0..MaxHomeLoan}
WidgetEduLoan == {k * 10000 : k \in 0..MaxEduLoan}
WidgetHra == {k * 100000 : k \in 0..MaxHra}

----------------------------------------------------------------------------
(* main.py, tab 1 *)

\* every widget starts at value=0; nothing is calculated before the first click
InitApp ==
    /\ income = 0 /\ investments = 0 /\ health_insurance = 0
    /\ home_loan = 0 /\ edu_loan = 0 /\ hra = 0
    /\ calculated = FALSE
    /\ old_regime_taxable = 0
    /\ old_regime_tax = NoBreakdown /\ new_regime_tax = NoBreakdown
    /\ better_regime = NoVerdict
    /\ tips = <<>>

\* a rerun that the button did not trigger skips the "Calculate Tax" branch
NoResults ==
    /\ calculated' = FALSE
    /\ old_regime_taxable' = 0
    /\ old_regime_tax' = NoBreakdown /\ new_regime_tax' = NoBreakdown
    /\ better_regime' = NoVerdict
    /\ tips' = <<>>

SetIncome ==
    /\ \E v \in WidgetIncomes : v # income /\ income' = v
    /\ NoResults
    /\ UNCHANGED <<investments, health_insurance, home_loan, edu_loan, hra>>

SetInvestments ==
    /\ \E v \in WidgetInvestments : v # investments /\ investments' = v
    /\ NoResults
    /\ UNCHANGED <<income, health_insurance, home_loan, edu_loan, hra>>

SetHealthInsurance ==
    /\ \E v \in WidgetHealth : v # health_insurance /\ health_insurance' = v
    /\ NoResults
    /\ UNCHANGED <<income, investments, home_loan, edu_loan, hra>>

SetHomeLoan ==
    /\ \E v \in WidgetHomeLoan : v # home_loan /\ home_loan' = v
    /\ NoResults
    /\ UNCHANGED <<income, investments, health_insurance, edu_loan, hra>>

SetEduLoan ==
    /\ \E v \in WidgetEduLoan : v # edu_loan /\ edu_loan' = v
    /\ NoResults
    /\ UNCHANGED <<income, investments, health_insurance, home_loan, hra>>

SetHra ==
    /\ \E v \in WidgetHra : v # hra /\ hra' = v
    /\ NoResults
    /\ UNCHANGED <<income, investments, health_insurance, home_loan, edu_loan>>

\* mutant: the home loan interest is left out of the sum
TotalDeductions_NoHomeLoan(inv, hi, hl, el, h) == inv + hi + el + h

TotalDeductions(inv, hi, hl, el, h) == inv + hi + hl + el + h

\* mutant: the floor at 0 is missing
OldRegimeTaxable_NoFloor(inc, total_deductions) == inc - total_deductions

OldRegimeTaxable(inc, total_deductions) == Max(0, inc - total_deductions)

\* the "Calculate Tax" button
CalculateTax ==
    LET total_deductions ==
            TotalDeductions(investments, health_insurance, home_loan, edu_loan, hra)
        taxable == OldRegimeTaxable(income, total_deductions)
        old == calculate_old_regime_tax(taxable)
        new == calculate_new_regime_tax(income)
    IN  /\ calculated' = TRUE
        /\ old_regime_taxable' = taxable
        /\ old_regime_tax' = old
        /\ new_regime_tax' = new
        /\ better_regime' = get_better_regime(old, new)
        /\ tips' = get_tax_saving_tips(income, investments, health_insurance,
                                       home_loan, edu_loan)
        /\ UNCHANGED <<income, investments, health_insurance, home_loan, edu_loan, hra>>

\* the results a run of the "Calculate Tax" branch leaves on the page
Report(taxable, old, new, better) ==
    [old_regime_taxable |-> taxable, old_regime_tax |-> old,
     new_regime_tax |-> new, better_regime |-> better]

NoReport == Report(0, NoBreakdown, NoBreakdown, NoVerdict)

\* the form filled in, nothing calculated yet
InitFilled ==
    /\ income \in WidgetIncomes /\ investments \in WidgetInvestments
    /\ health_insurance \in WidgetHealth /\ home_loan \in WidgetHomeLoan
    /\ edu_loan \in WidgetEduLoan /\ hra \in WidgetHra
    /\ calculated = FALSE
    /\ old_regime_taxable = 0
    /\ old_regime_tax = NoBreakdown /\ new_regime_tax = NoBreakdown
    /\ better_regime = NoVerdict
    /\ tips = <<>>

\* "Calculate Tax" on a page that shows no results
Calculate ==
    /\ ~calculated
    /\ CalculateTax
    /\ UNCHANGED last_report

\* after a calculation one deduction widget is set to a higher value, the gross
\* income stays; the results that were on the page are remembered
Remember ==
    /\ calculated
    /\ last_report' = Report(old_regime_taxable, old_regime_tax, new_regime_tax, better_regime)
    /\ NoResults

RaiseInvestments ==
    /\ Remember
    /\ \E v \in WidgetInvestments : v > investments /\ investments' = v
    /\ UNCHANGED <<income, health_insurance, home_loan, edu_loan, hra>>

RaiseHealthInsurance ==
    /\ Remember
    /\ \E v \in WidgetHealth : v > health_insurance /\ health_insurance' = v
    /\ UNCHANGED <<income, investments, home_loan, edu_loan, hra>>

RaiseHomeLoan ==
    /\ Remember
    /\ \E v \in WidgetHomeLoan : v > home_loan /\ home_loan' = v
    /\ UNCHANGED <<income, investments, health_insurance, edu_loan, hra>>

RaiseEduLoan ==
    /\ Remember
    /\ \E v \in WidgetEduLoan : v > edu_loan /\ edu_loan' = v
    /\ UNCHANGED <<income, investments, health_insurance, home_loan, hra>>

RaiseHra ==
    /\ Remember
    /\ \E v \in WidgetHra : v > hra /\ hra' = v
    /\ UNCHANGED <<income, investments, health_insurance, home_loan, edu_loan>>

----------------------------------------------------------------------------
(* main.py, the predictor and tab 2 *)

\* line 28 runs on every run of the script: a new predictor replaces the old one
Rerun ==
    LET built == TaxRegimePredictor(np_random)
    IN  /\ ml_predictor' = built.self
        /\ np_random' = built.rng
        /\ UNCHANGED tie_break

\* the first run of the script has built the predictor
InitML ==
    LET built == TaxRegimePredictor(ProcessStart)
    IN  /\ ml_predictor = built.self
        /\ np_random = built.rng
        /\ tie_break \in 1..Len(SecondSplits)

\* no script has run: nothing is built
InitNoML ==
    /\ ml_predictor = NotBuilt
    /\ np_random = ProcessStart
    /\ tie_break = 1

NoPrediction ==
    [regime |-> "", confidence |-> [num |-> 0, den |-> 0], explanation |-> ""]

\* the widgets' value= defaults
InitTab2 ==
    /\ income_ml = 500000 /\ investments_ml = 50000 /\ health_insurance_ml = 10000
    /\ hra_ml = 0 /\ home_loan_ml = 0 /\ edu_loan_ml = 0 /\ age_ml = 30
    /\ prediction = NoPrediction

Around(t) == {t + d : d \in (1 - Near)..Near}

\* income_ml has min_value=300000, investments_ml max_value=150000, age_ml 18..100
WidgetIncomesML == {500000} \cup Around(2111658)
WidgetInvestmentsML == {0, 50000, 150000}
WidgetHealthML == {0, 10000} \cup Around(47088) \cup Around(47267)
WidgetHraML == {0} \cup Around(12602) \cup Around(318143 - 47089)
WidgetHomeLoanML == {0} \cup Around(21653)
WidgetEduLoanML == {0, 50000 - 47089, 100000}
WidgetAgesML == {30, 65}

SetIncomeML ==
    /\ \E v \in WidgetIncomesML : v # income_ml /\ income_ml' = v
    /\ prediction' = NoPrediction
    /\ UNCHANGED <<investments_ml, health_insurance_ml, hra_ml, home_loan_ml,
                   edu_loan_ml, age_ml>>

SetInvestmentsML ==
    /\ \E v \in WidgetInvestmentsML : v # investments_ml /\ investments_ml' = v
    /\ prediction' = NoPrediction
    /\ UNCHANGED <<income_ml, health_insurance_ml, hra_ml, home_loan_ml,
                   edu_loan_ml, age_ml>>

SetHealthInsuranceML ==
    /\ \E v \in WidgetHealthML : v # health_insurance_ml /\ health_insurance_ml' = v
    /\ prediction' = NoPrediction
    /\ UNCHANGED <<income_ml, investments_ml, hra_ml, home_loan_ml, edu_loan_ml, age_ml>>

SetHraML ==
    /\ \E v \in WidgetHraML : v # hra_ml /\ hra_ml' = v
    /\ prediction' = NoPrediction
    /\ UNCHANGED <<income_ml, investments_ml, health_insurance_ml, home_loan_ml,
                   edu_loan_ml, age_ml>>

SetHomeLoanML ==
    /\ \E v \in WidgetHomeLoanML : v # home_loan_ml /\ home_loan_ml' = v
    /\ prediction' = NoPrediction
    /\ UNCHANGED <<income_ml, investments_ml, health_insurance_ml, hra_ml,
                   edu_loan_ml, age_ml>>

SetEduLoanML ==
    /\ \E v \in WidgetEduLoanML : v # edu_loan_ml /\ edu_loan_ml' = v
    /\ prediction' = NoPrediction
    /\ UNCHANGED <<income_ml, investments_ml, health_insurance_ml, hra_ml,
                   home_loan_ml, age_ml>>

SetAgeML ==
    /\ \E v \in WidgetAgesML : v # age_ml /\ age_ml' = v
    /\ prediction' = NoPrediction
    /\ UNCHANGED <<income_ml, investments_ml, health_insurance_ml, hra_ml,
                   home_loan_ml, edu_loan_ml>>

\* the "Predict Best Regime" button, on the predictor this run has built; the
\* tree is known for the fit the program makes (Seed42Model)
PredictBestRegime ==
    /\ TaxRegimePredictor(np_random).self.model = Seed42Model
    /\ prediction' = predict_regime(FittedTree(tie_break), income_ml, investments_ml,
                                    health_insurance_ml, hra_ml, home_loan_ml,
                                    edu_loan_ml, age_ml)
    /\ UNCHANGED <<income_ml, investments_ml, health_insurance_ml, hra_ml,
                   home_loan_ml, edu_loan_ml, age_ml>>

----------------------------------------------------------------------------
(* tax_predictor.py: several predictors, concurrent callers *)

Instances == 1..MaxInstances
Callers == 1..MaxCallers

\* argument lists (income, investments_80c, health_insurance, hra, home_loan,
\* edu_loan, age), one for each leaf of the fitted tree
CallerInputs ==
    { <<500000, 50000, 10000, 0, 0, 0, 30>>,
      <<500000, 150000, 10000, 100000, 0, 0, 30>>,
      <<2200000, 0, 47100, 0, 0, 0, 30>>,
      <<2200000, 150000, 48000, 0, 100000, 0, 65>> }

NoRow == InputData(0, 0, 0, 0, 0, 0, 0, 0)
NoProbability == <<[num |-> 0, den |-> 0], [num |-> 0, den |-> 0]>>

\* a caller: its arguments, the instance it calls, its place in predict_regime
\* and the locals total_deductions, input_data, prediction, probability
Idle(args) ==
    [args |-> args, self |-> 0, pc |-> "idle", total_deductions |-> 0,
     input_data |-> NoRow, prediction |-> 0 - 1, probability |-> NoProbability,
     result |-> NoPrediction]

InitNoInstances ==
    /\ instances = [i \in Instances |-> NotBuilt]
    /\ calls = [c \in Callers |-> Idle(<<0, 0, 0, 0, 0, 0, 0>>)]

InitCallers ==
    /\ instances = [i \in Instances |-> NotBuilt]
    /\ calls \in [Callers -> {Idle(a) : a \in CallerInputs}]

\* the tree of a fitted model is known for the fit the program makes
Known(model) == model = Seed42Model

\* TaxRegimePredictor()
Construct(i) ==
    LET built == TaxRegimePredictor(np_random)
    IN  /\ instances[i] = NotBuilt
        /\ instances' = [instances EXCEPT ![i] = built.self]
        /\ np_random' = built.rng
        /\ UNCHANGED <<calls, ml_predictor, tie_break>>

\* predict_regime, lines 98-111: total_deductions and input_data
CallBegin(c, i) ==
    LET a == calls[c].args
        total_deductions == a[2] + a[3] + a[4] + a[5] + a[6]
    IN  /\ calls[c].pc = "idle"
        /\ instances[i] # NotBuilt /\ Known(instances[i].model)
        /\ calls' = [calls EXCEPT ![c] =
               [@ EXCEPT !.self = i, !.pc = "predict",
                         !.total_deductions = total_deductions,
                         !.input_data = InputData(a[1], a[2], a[3], a[4], a[5], a[6],
                                                  a[7], total_deductions)]]
        /\ UNCHANGED <<instances, mlVars>>

\* line 114: self.model.predict
CallPredict(c) ==
    /\ calls[c].pc = "predict"
    /\ Known(instances[calls[c].self].model)
    /\ calls' = [calls EXCEPT ![c] =
           [@ EXCEPT !.pc = "predict_proba",
                     !.prediction = ModelPredict(FittedTree(tie_break), calls[c].input_data)]]
    /\ UNCHANGED <<instances, mlVars>>

\* mutant: predict_proba is made on a model that is fitted again first
CallPredictProba_Retrains(c) ==
    /\ calls[c].pc = "predict_proba"
    /\ Known(instances[calls[c].self].model)
    /\ calls' = [calls EXCEPT ![c] =
           [@ EXCEPT !.pc = "return",
                     !.probability = ModelPredictProba(FittedTree(tie_break), calls[c].input_data)]]
    /\ instances' = [instances EXCEPT ![calls[c].self] =
           [@ EXCEPT !.model = _train_model(instances[calls[c].self].training_data, np_random).model]]
    /\ UNCHANGED mlVars

\* line 115: self.model.predict_proba
CallPredictProba(c) ==
    /\ calls[c].pc = "predict_proba"
    /\ Known(instances[calls[c].self].model)
    /\ calls' = [calls EXCEPT ![c] =
           [@ EXCEPT !.pc = "return",
                     !.probability = ModelPredictProba(FittedTree(tie_break), calls[c].input_data)]]
    /\ UNCHANGED <<instances, mlVars>>

\* lines 117-137: regime, confidence, explanation and the returned dict
CallReturn(c) ==
    /\ calls[c].pc = "return"
    /\ calls' = [calls EXCEPT ![c] =
           [@ EXCEPT !.pc = "done",
                     !.result =
                         [regime |-> IF calls[c].prediction = 1 THEN "Old Regime"
                                     ELSE "New Regime",
                          confidence |-> Confidence(calls[c].probability, calls[c].prediction),
                          explanation |-> Explanation(calls[c].prediction, calls[c].total_deductions)]]]
    /\ UNCHANGED <<instances, mlVars>>

----------------------------------------------------------------------------
(* Direct calls of the calculator functions *)

InitFn ==
    /\ inA = 0 /\ inB = 0
    /\ fnA = "none" /\ fnB = "none"
    /\ bdA = NoBreakdown /\ bdB = NoBreakdown
    /\ cmpAB = NoVerdict /\ cmpBA = NoVerdict

InitCalls ==
    /\ inA \in Incomes /\ inB \in Incomes
    /\ fnA = "none" /\ fnB = "none"
    /\ bdA = NoBreakdown /\ bdB = NoBreakdown
    /\ cmpAB = NoVerdict /\ cmpBA = NoVerdict

CallOldA ==
    /\ fnA = "none"
    /\ fnA' = "old"
    /\ bdA' = calculate_old_regime_tax(inA)
    /\ UNCHANGED <<inA, inB, fnB, bdB, cmpAB, cmpBA>>

CallNewA ==
    /\ fnA = "none"
    /\ fnA' = "new"
    /\ bdA' = calculate_new_regime_tax(inA)
    /\ UNCHANGED <<inA, inB, fnB, bdB, cmpAB, cmpBA>>

CallOldB ==
    /\ fnB = "none"
    /\ fnB' = "old"
    /\ bdB' = calculate_old_regime_tax(inB)
    /\ UNCHANGED <<inA, inB, fnA, bdA, cmpAB, cmpBA>>

CallNewB ==
    /\ fnB = "none"
    /\ fnB' = "new"
    /\ bdB' = calculate_new_regime_tax(inB)
    /\ UNCHANGED <<inA, inB, fnA, bdA, cmpAB, cmpBA>>

\* get_better_regime(A, B): A is passed as old_regime_tax, B as new_regime_tax
CompareAB ==
    /\ fnA # "none" /\ fnB # "none" /\ cmpAB = NoVerdict
    /\ cmpAB' = get_better_regime(bdA, bdB)
    /\ UNCHANGED <<inA, inB, fnA, fnB, bdA, bdB, cmpBA>>

\* get_better_regime(B, A)
CompareBA ==
    /\ fnA # "none" /\ fnB # "none" /\ cmpBA = NoVerdict
    /\ cmpBA' = get_better_regime(bdB, bdA)
    /\ UNCHANGED <<inA, inB, fnA, fnB, bdA, bdB, cmpAB>>

----------------------------------------------------------------------------
(* Specifications *)

Init == InitApp /\ InitFn /\ last_report = NoReport /\ InitML /\ InitTab2 /\ InitNoInstances

Next ==
    \/ SetIncome /\ Rerun /\ UNCHANGED <<instVars, fnVars, last_report, tab2Vars>>
    \/ SetInvestments /\ Rerun /\ UNCHANGED <<instVars, fnVars, last_report, tab2Vars>>
    \/ SetHealthInsurance /\ Rerun /\ UNCHANGED <<instVars, fnVars, last_report, tab2Vars>>
    \/ SetHomeLoan /\ Rerun /\ UNCHANGED <<instVars, fnVars, last_report, tab2Vars>>
    \/ SetEduLoan /\ Rerun /\ UNCHANGED <<instVars, fnVars, last_report, tab2Vars>>
    \/ SetHra /\ Rerun /\ UNCHANGED <<instVars, fnVars, last_report, tab2Vars>>
    \/ CalculateTax /\ Rerun /\ UNCHANGED <<instVars, fnVars, last_report, tab2Vars>>

Spec == Init /\ [][Next]_vars

InitCalc == InitApp /\ InitCalls /\ last_report = NoReport /\ InitNoML /\ InitTab2 /\ InitNoInstances

NextCalc ==
    \/ CallOldA /\ UNCHANGED <<instVars, appVars, last_report, mlVars, tab2Vars>>
    \/ CallNewA /\ UNCHANGED <<instVars, appVars, last_report, mlVars, tab2Vars>>
    \/ CallOldB /\ UNCHANGED <<instVars, appVars, last_report, mlVars, tab2Vars>>
    \/ CallNewB /\ UNCHANGED <<instVars, appVars, last_report, mlVars, tab2Vars>>
    \/ CompareAB /\ UNCHANGED <<instVars, appVars, last_report, mlVars, tab2Vars>>
    \/ CompareBA /\ UNCHANGED <<instVars, appVars, last_report, mlVars, tab2Vars>>

SpecCalc == InitCalc /\ [][NextCalc]_vars

InitRaise == InitFilled /\ InitFn /\ last_report = NoReport /\ InitML /\ InitTab2 /\ InitNoInstances

NextRaise ==
    \/ Calculate /\ Rerun /\ UNCHANGED <<instVars, fnVars, tab2Vars>>
    \/ RaiseInvestments /\ Rerun /\ UNCHANGED <<instVars, fnVars, tab2Vars>>
    \/ RaiseHealthInsurance /\ Rerun /\ UNCHANGED <<instVars, fnVars, tab2Vars>>
    \/ RaiseHomeLoan /\ Rerun /\ UNCHANGED <<instVars, fnVars, tab2Vars>>
    \/ RaiseEduLoan /\ Rerun /\ UNCHANGED <<instVars, fnVars, tab2Vars>>
    \/ RaiseHra /\ Rerun /\ UNCHANGED <<instVars, fnVars, tab2Vars>>

SpecRaise == InitRaise /\ [][NextRaise]_vars

InitAdvisor == InitApp /\ InitFn /\ last_report = NoReport /\ InitML /\ InitTab2 /\ InitNoInstances

NextAdvisor ==
    \/ SetIncomeML /\ Rerun /\ UNCHANGED <<instVars, appVars, fnVars, last_report>>
    \/ SetInvestmentsML /\ Rerun /\ UNCHANGED <<instVars, appVars, fnVars, last_report>>
    \/ SetHealthInsuranceML /\ Rerun /\ UNCHANGED <<instVars, appVars, fnVars, last_report>>
    \/ SetHraML /\ Rerun /\ UNCHANGED <<instVars, appVars, fnVars, last_report>>
    \/ SetHomeLoanML /\ Rerun /\ UNCHANGED <<instVars, appVars, fnVars, last_report>>
    \/ SetEduLoanML /\ Rerun /\ UNCHANGED <<instVars, appVars, fnVars, last_report>>
    \/ SetAgeML /\ Rerun /\ UNCHANGED <<instVars, appVars, fnVars, last_report>>
    \/ PredictBestRegime /\ Rerun /\ UNCHANGED <<instVars, appVars, fnVars, last_report>>

SpecAdvisor == InitAdvisor /\ [][NextAdvisor]_vars

InitInstances ==
    /\ InitApp /\ InitFn /\ last_report = NoReport /\ InitTab2
    /\ np_random = ProcessStart /\ ml_predictor = NotBuilt
    /\ tie_break \in 1..Len(SecondSplits)
    /\ InitCallers

NextInstances ==
    \/ \E i \in Instances : Construct(i) /\ UNCHANGED <<appVars, fnVars, last_report, tab2Vars>>
    \/ \E c \in Callers, i \in Instances :
           CallBegin(c, i) /\ UNCHANGED <<appVars, fnVars, last_report, tab2Vars>>
    \/ \E c \in Callers : CallPredict(c) /\ UNCHANGED <<appVars, fnVars, last_report, tab2Vars>>
    \/ \E c \in Callers :
           CallPredictProba(c) /\ UNCHANGED <<appVars, fnVars, last_report, tab2Vars>>
    \/ \E c \in Callers : CallReturn(c) /\ UNCHANGED <<appVars, fnVars, last_report, tab2Vars>>

SpecInstances == InitInstances /\ [][NextInstances]_vars

----------------------------------------------------------------------------
(* Properties *)

\* percent per cent of a whole-rupee amount, in 1/Scale rupee
PercentOf(percent, amount) == ((amount * Scale) \div 100) * percent

CalledA == fnA # "none"
CalledB == fnB # "none"

\* the old-regime bracket table of section 4.1
OldTable(x) ==
    CASE x <= 250000 -> 0
      [] 250000 < x /\ x <= 500000 -> PercentOf(5, x - 250000)
      [] 500000 < x /\ x <= 1000000 -> Rupees(12500) + PercentOf(20, x - 500000)
      [] x > 1000000 -> Rupees(112500) + PercentOf(30, x - 1000000)

\* C1: for every non-negative taxable income x, calculate_old_regime_tax(x)
\* returns the base_tax of the old-regime bracket table; an income on a tier
\* boundary is taxed by the lower tier's formula.
C1_OldTable ==
    /\ (fnA = "old" /\ inA >= 0) => bdA.base_tax = OldTable(inA)
    /\ (fnB = "old" /\ inB >= 0) => bdB.base_tax = OldTable(inB)

C1_Witness ==
    /\ fnA = "old" /\ inA = 1000000 /\ bdA.base_tax = Rupees(112500)
    /\ fnB = "old" /\ inB = 500001 /\ bdB.base_tax = Rupees(12500) + 100

\* the new-regime bracket table of section 4.1
NewTable(x) ==
    CASE x <= 300000 -> 0
      [] 300000 < x /\ x <= 600000 -> PercentOf(5, x - 300000)
      [] 600000 < x /\ x <= 900000 -> Rupees(15000) + PercentOf(10, x - 600000)
      [] 900000 < x /\ x <= 1200000 -> Rupees(45000) + PercentOf(15, x - 900000)
      [] 1200000 < x /\ x <= 1500000 -> Rupees(90000) + PercentOf(20, x - 1200000)
      [] x > 1500000 -> Rupees(150000) + PercentOf(30, x - 1500000)

\* C2: for every non-negative gross income x, calculate_new_regime_tax(x)
\* returns the base_tax of the new-regime bracket table on x itself; an income
\* on a tier boundary is taxed by the lower tier's formula.
C2_NewTable ==
    /\ (fnA = "new" /\ inA >= 0) => bdA.base_tax = NewTable(inA)
    /\ (fnB = "new" /\ inB >= 0) => bdB.base_tax = NewTable(inB)

C2_Witness ==
    /\ fnA = "new" /\ inA = 1200000 /\ bdA.base_tax = Rupees(90000)
    /\ fnB = "new" /\ inB = 900001 /\ bdB.base_tax = Rupees(45000) + 75

CessAndTotal(bd) ==
    /\ 100 * bd.cess = 4 * bd.base_tax
    /\ bd.total_tax = bd.base_tax + bd.cess
    /\ bd.base_tax >= 0 /\ bd.cess >= 0 /\ bd.total_tax >= 0

\* C3: for a non-negative input, either calculator returns cess = 4% of
\* base_tax and total_tax = base_tax + cess, all three non-negative.
C3_CessAndTotal ==
    /\ (CalledA /\ inA >= 0) => CessAndTotal(bdA)
    /\ (CalledB /\ inB >= 0) => CessAndTotal(bdB)

C3_Witness ==
    /\ fnA = "old" /\ inA = 825000 /\ bdA = Breakdown(Rupees(77500), Rupees(3100), Rupees(80600))
    /\ fnB = "new" /\ inB = 300001 /\ bdB = Breakdown(25, 1, 26)

\* the inputs of scenario 2 of section 8
Scenario2 ==
    /\ income = 1200000 /\ investments = 150000 /\ health_insurance = 25000
    /\ home_loan = 200000 /\ edu_loan = 0 /\ hra = 0

\* C4 as stated: scenario 2 yields old 77,500 / 3,100 / 80,600, new 45,000 /
\* 1,800 / 46,800 and the verdict New Regime with savings 33,800.
C4_AsStated ==
    (calculated /\ Scenario2) =>
        /\ old_regime_tax = Breakdown(Rupees(77500), Rupees(3100), Rupees(80600))
        /\ new_regime_tax = Breakdown(Rupees(45000), Rupees(1800), Rupees(46800))
        /\ better_regime = [regime |-> "New Regime", savings |-> Rupees(33800)]

\* C4, amended: scenario 2 yields old 77,500 / 3,100 / 80,600, new 90,000 /
\* 3,600 / 93,600 and the verdict Old Regime with savings 13,000.
C4_Scenario2 ==
    (calculated /\ Scenario2) =>
        /\ old_regime_taxable = 825000
        /\ old_regime_tax = Breakdown(Rupees(77500), Rupees(3100), Rupees(80600))
        /\ new_regime_tax = Breakdown(Rupees(90000), Rupees(3600), Rupees(93600))
        /\ better_regime = [regime |-> "Old Regime", savings |-> Rupees(13000)]

C4_Witness == calculated /\ Scenario2 /\ better_regime.regime = "Old Regime"

\* C5: get_better_regime(old, new) returns Old Regime with savings new - old
\* exactly when old.total_tax < new.total_tax, and otherwise (a tie included)
\* New Regime with savings old - new; so savings >= 0 is the absolute
\* difference of the totals and a tie gives New Regime with savings 0.
C5_BetterRegime ==
    cmpAB # NoVerdict =>
        /\ cmpAB.regime \in {"Old Regime", "New Regime"}
        /\ cmpAB.regime = "Old Regime" <=> bdA.total_tax < bdB.total_tax
        /\ cmpAB.regime = "Old Regime" => cmpAB.savings = bdB.total_tax - bdA.total_tax
        /\ cmpAB.regime = "New Regime" => cmpAB.savings = bdA.total_tax - bdB.total_tax
        /\ cmpAB.savings >= 0
        /\ cmpAB.savings \in {bdA.total_tax - bdB.total_tax, bdB.total_tax - bdA.total_tax}
        /\ bdA.total_tax = bdB.total_tax =>
               cmpAB = [regime |-> "New Regime", savings |-> 0]

\* scenario 3 of section 8: 250,000 under both regimes, a tie
C5_Witness ==
    /\ fnA = "old" /\ inA = 250000 /\ fnB = "new" /\ inB = 250000
    /\ cmpAB = [regime |-> "New Regime", savings |-> 0]

\* C6: get_better_regime(A, B) and get_better_regime(B, A) report the same
\* label only if the totals are equal, and then both report New Regime; when
\* the totals differ they report opposite labels with the same savings.
C6_Swap ==
    (cmpAB # NoVerdict /\ cmpBA # NoVerdict) =>
        /\ cmpAB.regime = cmpBA.regime => bdA.total_tax = bdB.total_tax
        /\ bdA.total_tax = bdB.total_tax =>
               cmpAB.regime = "New Regime" /\ cmpBA.regime = "New Regime"
        /\ bdA.total_tax # bdB.total_tax =>
               cmpAB.regime # cmpBA.regime /\ cmpAB.savings = cmpBA.savings

C6_Witness ==
    /\ cmpAB # NoVerdict /\ cmpBA # NoVerdict
    /\ bdA.total_tax > bdB.total_tax /\ bdB.total_tax > 0
    /\ cmpAB.regime = "New Regime" /\ cmpBA.regime = "Old Regime"
    /\ cmpAB.savings = cmpBA.savings

\* C7: for both regimes and all incomes a <= b, total_tax(a) <= total_tax(b).
C7_Monotone ==
    /\ (CalledA /\ fnA = fnB /\ inA <= inB) => bdA.total_tax <= bdB.total_tax
    /\ (CalledA /\ fnA = fnB /\ inB <= inA) => bdB.total_tax <= bdA.total_tax

C7_Witness ==
    /\ fnA = "old" /\ fnB = "old" /\ inA = 1000000 /\ inB = 1000001
    /\ bdA.total_tax < bdB.total_tax

\* the marginal rate (per cent) and the formula value at B of the tier above boundary B
UpperRate(fn, B) ==
    IF fn = "old"
    THEN CASE B = 250000 -> 5 [] B = 500000 -> 20 [] B = 1000000 -> 30
    ELSE CASE B = 300000 -> 5 [] B = 600000 -> 10 [] B = 900000 -> 15
           [] B = 1200000 -> 20 [] B = 1500000 -> 30

UpperFormulaAt(fn, B) ==
    IF fn = "old"
    THEN CASE B = 250000 -> 0 [] B = 500000 -> Rupees(12500)
           [] B = 1000000 -> Rupees(112500)
    ELSE CASE B = 300000 -> 0 [] B = 600000 -> Rupees(15000)
           [] B = 900000 -> Rupees(45000) [] B = 1200000 -> Rupees(90000)
           [] B = 1500000 -> Rupees(150000)

BoundariesOf(fn) == IF fn = "old" THEN OldBoundaries ELSE NewBoundaries

\* C8: at every bracket boundary B of either regime the base tax at B (lower
\* tier's formula) equals the upper tier's formula at B, so the step from B to
\* B+1 raises base tax by exactly the upper tier's rate on one rupee.
C8_Continuity ==
    (CalledA /\ fnA = fnB /\ inA \in BoundariesOf(fnA) /\ inB = inA + 1) =>
        /\ bdA.base_tax = UpperFormulaAt(fnA, inA)
        /\ bdB.base_tax - bdA.base_tax = PercentOf(UpperRate(fnA, inA), 1)

C8_Witness ==
    /\ fnA = "new" /\ fnB = "new" /\ inA = 1200000 /\ inB = 1200001
    /\ bdB.base_tax - bdA.base_tax = 100

\* C9: a negative income handed to either calculator gives the result of
\* income 0, namely base_tax = cess = total_tax = 0, as if the income had been
\* clamped to 0 before the bracket lookup.
C9_Negative ==
    /\ (CalledA /\ inA < 0) => bdA = Breakdown(0, 0, 0)
    /\ (CalledB /\ inB < 0) => bdB = Breakdown(0, 0, 0)
    /\ (CalledA /\ fnA = fnB /\ inA < 0 /\ inB = 0) => bdA = bdB

C9_Witness ==
    /\ fnA = "old" /\ inA = -400000 /\ bdA = Breakdown(0, 0, 0)
    /\ fnB = "old" /\ inB = 0 /\ bdB = bdA

\* the six tips in their order, each with its condition
TipRules(inc, inv, hi, hl, el) ==
    << [on |-> inv < 150000, tip |-> Tip80C(150000 - inv)],
       [on |-> hi < 25000, tip |-> Tip80D],
       [on |-> 0 < hl /\ hl < 200000, tip |-> Tip24b(hl)],
       [on |-> el = 0, tip |-> Tip80E],
       [on |-> TRUE, tip |-> TipNPS],
       [on |-> inc > 1000000, tip |-> TipIncomeSplitting] >>

ExpectedTips(inc, inv, hi, hl, el) ==
    LET chosen == SelectSeq(TipRules(inc, inv, hi, hl, el), LAMBDA r : r.on)
    IN  [i \in 1..Len(chosen) |-> chosen[i].tip]

\* the inputs of scenario 4 of section 8
Scenario4 ==
    /\ income = 1200000 /\ investments = 150000 /\ health_insurance = 25000
    /\ home_loan = 0 /\ edu_loan = 10000

\* C10: get_tax_saving_tips returns, in the fixed order 80C, health insurance,
\* home loan, education loan, NPS, high income, exactly the tips whose
\* condition holds; scenario 4 gives exactly the NPS and the high-income tip.
C10_Tips ==
    calculated =>
        /\ tips = ExpectedTips(income, investments, health_insurance, home_loan, edu_loan)
        /\ Scenario4 => tips = <<TipNPS, TipIncomeSplitting>> /\ Len(tips) = 2

C10_Witness == calculated /\ Scenario4 /\ Len(tips) = 2

\* C11: for every combination of inputs get_tax_saving_tips returns at least
\* one and at most six tips, and the NPS / 80CCD(1B) tip is always among them.
C11_TipCount ==
    calculated =>
        /\ 1 <= Len(tips) /\ Len(tips) <= 6
        /\ \E i \in 1..Len(tips) : tips[i] = TipNPS

\* all six tips at once
C11_Witness ==
    /\ calculated /\ Len(tips) = 6 /\ tips[5] = TipNPS
    /\ income > 1000000 /\ edu_loan = 0 /\ home_loan = 100000

\* C16 (first part) as an invariant of the page: with all deductions zero the
\* old-regime taxable income is the gross income x, and then new total <= old
\* total, so the verdict is New Regime; Old Regime needs deductions > 0.
C16_NewNeverWorse ==
    calculated =>
        /\ TotalDeductions(investments, health_insurance, home_loan, edu_loan, hra) = 0 =>
               /\ old_regime_taxable = income
               /\ new_regime_tax.total_tax <= old_regime_tax.total_tax
               /\ better_regime.regime = "New Regime"
        /\ better_regime.regime = "Old Regime" =>
               TotalDeductions(investments, health_insurance, home_loan, edu_loan, hra) > 0

\* no deductions, income above every slab: the new regime is strictly cheaper
C16_Witness ==
    /\ calculated /\ income = 2000000
    /\ investments = 0 /\ health_insurance = 0 /\ home_loan = 0 /\ edu_loan = 0 /\ hra = 0
    /\ new_regime_tax.total_tax < old_regime_tax.total_tax
    /\ better_regime.regime = "New Regime"

\* C17: with the gross income fixed, raising one of the five deductions never
\* raises the old-regime total tax, never changes the new-regime total tax and
\* never turns the verdict from Old Regime into New Regime; the old-regime
\* taxable income is max(0, income - sum of the five deductions), never below 0.
C17_RaisingDeductions ==
    /\ (calculated /\ last_report # NoReport) =>
        /\ old_regime_tax.total_tax <= last_report.old_regime_tax.total_tax
        /\ new_regime_tax.total_tax = last_report.new_regime_tax.total_tax
        /\ last_report.better_regime.regime = "Old Regime" =>
               better_regime.regime = "Old Regime"
    /\ calculated =>
        LET sum == investments + health_insurance + home_loan + edu_loan + hra
        IN  /\ old_regime_taxable = (IF income >= sum THEN income - sum ELSE 0)
            /\ old_regime_taxable >= 0

\* a raised deduction lowers the old-regime tax and turns New Regime into Old Regime
C17_Witness ==
    /\ calculated /\ last_report # NoReport
    /\ old_regime_tax.total_tax < last_report.old_regime_tax.total_tax
    /\ last_report.better_regime.regime = "New Regime"
    /\ better_regime.regime = "Old Regime"

\* deductions above the income: the taxable income stays at 0
C17_Floor ==
    /\ calculated /\ last_report # NoReport
    /\ income > 0 /\ income < investments + health_insurance + home_loan + edu_loan + hra
    /\ old_regime_taxable = 0

Predicted == prediction # NoPrediction

TotalDeductionsML ==
    investments_ml + health_insurance_ml + hra_ml + home_loan_ml + edu_loan_ml

\* the class counts of the leaf the tab 2 inputs fall into
LeafOfInputs ==
    Apply(FittedTree(tie_break),
          InputData(income_ml, investments_ml, health_insurance_ml, hra_ml,
                    home_loan_ml, edu_loan_ml, age_ml, TotalDeductionsML))

\* C13: predict_regime returns a confidence within [0, 100], equal to 100 times
\* the classifier's probability of the class it predicted, and a regime that is
\* Old Regime or New Regime.
C13_Confidence ==
    Predicted =>
        LET k == IF prediction.regime = "Old Regime" THEN 2 ELSE 1
            rows == LeafOfInputs[1] + LeafOfInputs[2]
        IN  /\ prediction.regime \in {"Old Regime", "New Regime"}
            /\ prediction.confidence.den > 0
            /\ 0 <= prediction.confidence.num
            /\ prediction.confidence.num <= 100 * prediction.confidence.den
            /\ prediction.confidence.den = rows
            /\ prediction.confidence.num = 100 * LeafOfInputs[k]
            /\ LeafOfInputs[k] >= LeafOfInputs[3 - k]

C13_Witness ==
    /\ Predicted /\ prediction.regime = "Old Regime"
    /\ health_insurance_ml > 47088
    /\ prediction.confidence = [num |-> 500, den |-> 5]

\* C15: the explanation follows from the predicted label and the sum of the
\* five deductions alone: Old with more than 150,000 the high-deduction text,
\* Old otherwise the generic Old text, New with less than 50,000 the
\* low-deductions text, New otherwise the generic New text; the text names
\* the regime of the regime field.
C15_Explanation ==
    Predicted =>
        /\ prediction.explanation =
               (IF prediction.regime = "Old Regime"
                THEN IF TotalDeductionsML > 150000 THEN ExplainOldHigh ELSE ExplainOld
                ELSE IF TotalDeductionsML < 50000 THEN ExplainNewLow ELSE ExplainNew)
        /\ prediction.regime = "Old Regime" <=>
               prediction.explanation \in {ExplainOldHigh, ExplainOld}
        /\ prediction.regime = "New Regime" <=>
               prediction.explanation \in {ExplainNewLow, ExplainNew}

C15_Witness ==
    /\ Predicted /\ prediction.regime = "New Regime"
    /\ TotalDeductionsML < 50000 /\ prediction.explanation = ExplainNewLow

\* the other three rows of the table
C15_OtherRows ==
    \/ Predicted /\ TotalDeductionsML = 50000 /\ prediction.explanation = ExplainNew
    \/ Predicted /\ TotalDeductionsML = 150000 /\ prediction.explanation = ExplainOld
    \/ Predicted /\ TotalDeductionsML > 150000 /\ prediction.explanation = ExplainOldHigh

----------------------------------------------------------------------------
(* Several predictors and concurrent callers *)

Built(i) == instances[i] # NotBuilt
Done(c) == calls[c].pc = "done"

\* C12: two TaxRegimePredictor instances, constructed in any order and with
\* predict_regime calls in between, hold identical training data (and the same
\* fitted model), and predict_regime returns identical results (regime,
\* confidence, explanation) for identical inputs on either of them.
C12_SameInstances ==
    /\ \A i, j \in Instances :
           Built(i) /\ Built(j) =>
               /\ instances[i].training_data = instances[j].training_data
               /\ instances[i].model = instances[j].model
    /\ \A c, d \in Callers :
           Done(c) /\ Done(d) /\ calls[c].args = calls[d].args =>
               calls[c].result = calls[d].result

\* two calls with the same inputs have returned from two different instances
C12_Witness ==
    /\ \A i \in Instances : Built(i)
    /\ \E c, d \in Callers :
           /\ Done(c) /\ Done(d)
           /\ calls[c].self # calls[d].self
           /\ calls[c].args = calls[d].args
           /\ calls[c].result.regime = "New Regime"

\* the result predict_regime gives for an argument list, taken in one piece
ResultFor(a) ==
    predict_regime(FittedTree(tie_break), a[1], a[2], a[3], a[4], a[5], a[6], a[7])

\* C14: once an instance is constructed, no step of any predict_regime call,
\* sequential or interleaved with other calls, changes its fitted model or its
\* training set, and the result of every call is the one its own arguments
\* determine, whichever other calls ran before or alongside it.
C14_ReadOnly ==
    /\ [][\A i \in Instances : Built(i) => instances'[i] = instances[i]]_vars
    /\ [](\A c \in Callers : Done(c) => calls[c].result = ResultFor(calls[c].args))

\* one call has returned while another call on the same instance, with other
\* arguments, is between predict and predict_proba
C14_Witness ==
    \E c, d \in Callers :
        /\ Done(c)
        /\ calls[d].pc = "predict_proba"
        /\ calls[c].self = calls[d].self
        /\ calls[c].args # calls[d].args
        /\ calls[c].result.regime # (IF calls[d].prediction = 1 THEN "Old Regime"
                                     ELSE "New Regime")

====
